---- MODULE Spec2Model ----
(***************************************************************************)
(* OceanID backend: the NMEA sentence reassembler of ais_decoder.py        *)
(* (AISDecoder), the vessel state store of main.py (ValkeyAISStore,        *)
(* sort_ais) and the UDP server of server.py, as state machines.           *)
(*                                                                         *)
(*   SpecDecoder  - AISDecoder fed with sentences one at a time.           *)
(*   SpecChecksum - AISDecoder.validate_checksum called on single texts.   *)
(*   Spec         - the ingestion thread writing to the store, one store   *)
(*                  command per step, while time passes and readers may    *)
(*                  issue their commands between any two steps.            *)
(*   SpecOps      - the same thread with the store going out of reach,     *)
(*                  messages that do not decode, base station reports and  *)
(*                  shutdown.                                              *)
(*   SpecEnrich   - the same thread next to the scraper call of the        *)
(*                  /ship/data endpoint, with fairness for the thread.     *)
(*   SpecServer   - AISUDPServer.handle_message counting datagrams.        *)
(***************************************************************************)
EXTENDS Integers, Sequences, FiniteSets, TLC

(***************************************************************************)
(* Bounds of the model.                                                    *)
(***************************************************************************)
\* Largest fragment count / fragment index put on the wire.
MaxCount == 3

\* Python's None, where a record is expected and where a string is expected.
None == [none |-> TRUE]
NoneStr == <<"None">>

(***************************************************************************)
(* Part 1.  ais_decoder.py                                                 *)
(*                                                                         *)
(* A sentence is a sequence of one-character strings, as received.         *)
(***************************************************************************)
VARIABLES
  message_fragments,  \* AISDecoder.message_fragments: message_id -> set of indices
  result,             \* what the last call of parse returned (None or the record)
  fragments_before,   \* history: message_fragments as it was before the last call
  channels_of,        \* history: per buffered message id, the channels its
                      \*   recorded indices arrived on
  last_channels,      \* history: the channels that fed the group of the last call
  stale,              \* history: message ids buffered for longer than the
                      \*   eviction window
  received,           \* history: the kind of text the last call of parse was given:
                      \*   "malformed", or a sentence with the "right" or a
                      \*   "wrong" checksum ("nothing" before the first call)
  validated           \* the last direct call of validate_checksum: its argument
                      \*   and its answer (None before the first)

decoderVars ==
  <<message_fragments, result, fragments_before, channels_of, last_channels, stale,
    received, validated>>

\* The state of the store and of the ingestion thread (Part 2).
VARIABLES
  now,           \* time.time(), whole seconds
  utcoffset,     \* local time minus UTC of the process's time zone, in seconds
  position,      \* ship:position:{mmsi} hashes (<<>> when the key does not exist)
  position_ttl,  \* the time each position key expires at (NoTTL when none is set)
  locations,     \* the geo set ships:locations: entries [member, lon, lat]
  history,       \* ship:history:{mmsi} sorted sets: entries [score, seq]
  info,          \* ship:info:{mmsi} hashes
  imo_index,     \* imo:index:{imo} strings (NoMmsi when the key does not exist)
  pc,            \* the store command the ingestion thread runs next
  data,          \* the normalized record it is writing
  reports,       \* history: messages written so far
  ticks,         \* history: times the clock was advanced
  latest,        \* history: per MMSI, the coordinates of the latest position report
                 \*   handed to update_ship_position (NoPoint before the first)
  completed,     \* history: per MMSI, whether that call returned normally
  refreshed,     \* history: per MMSI, when its position key, if it still exists,
                 \*   last got its expiry set (Never otherwise)
  had_static,    \* history: per MMSI, whether update_ship_info has written its hash
  appended,      \* history: per MMSI, every entry ever added to its history
  fresh          \* history: the MMSI whose update_ship_position has just returned
                 \*   (NoMmsi once time passes or another message is handled)

\* The store's reachability, the receiver thread, the base station keys and the
\* enrichment call of the /ship/data endpoint.
VARIABLES
  available,     \* whether the store answers commands (FALSE: every command raises)
  receiver,      \* the receiver thread: "running", "ended" (run_receiver has
                 \*   returned) or "killed" (the process went away under it)
  station,       \* base:station:{mmsi} hashes
  station_ttl,   \* the time each base station key expires at
  enrichment,    \* the scraper call of get_ship_data: its state and, history,
                 \*   the number of messages received when it was made
  failed_at      \* history: the number of messages received when a store command
                 \*   last raised (Never before the first)

opsVars == <<available, receiver, station, station_ttl, enrichment, failed_at>>

\* The counters of server.py's AISUDPServer.
VARIABLES
  message_count, \* AISUDPServer.message_count
  error_count,   \* AISUDPServer.error_count
  handled        \* history: the datagram of the last handle_message call and the
                 \*   two counters as they were before it (None before the first)

serverVars == <<message_count, error_count, handled>>

storeVars ==
  <<now, utcoffset, position, position_ttl, locations, history, info, imo_index,
    pc, data, reports, ticks, latest, completed, refreshed, had_static, appended,
    fresh, opsVars, serverVars>>

Digits == <<"0", "1", "2", "3", "4", "5", "6", "7", "8", "9">>

\* str(n) for one decimal digit.
DigitField(n) == <<Digits[n + 1]>>

\* The armored payload slice carried by fragment n of a logical sentence.
ArmorChars == <<"1", "5", "A", "K", "P">>
SliceOf(n) == <<ArmorChars[n], "0">>

RECURSIVE ConcatSlices(_)
\* The payload of a logical sentence of k fragments: its slices in index order.
ConcatSlices(k) == IF k = 0 THEN <<>> ELSE ConcatSlices(k - 1) \o SliceOf(k)

\* The message-group identifiers on the wire ("" when the field is empty).
IdFields == {<<>>, <<"1">>}
Channels == {<<"A">>, <<"B">>}
\* What follows the payload: a 7th field with the fill bits, or nothing.  The
\* checksum marker and the checksum come behind it.
Tails == {<<",", "0">>, <<>>}
\* The checksum on the wire is the right one, or another one.
Sums == {"right", "wrong"}
\* The fragment-count and fragment-index fields: empty, or a number.
NumberFields == {<<>>} \cup {DigitField(n) : n \in 1..MaxCount}

\* The text of one sentence: what the checksum covers, and the whole.
Body(f) ==
  <<"A", "I", "V", "D", "M", ",">> \o f.count \o <<",">> \o f.num
    \o <<",">> \o f.id \o <<",">> \o f.channel \o <<",">> \o f.payload \o f.tail

Sentence(f) == <<"!">> \o Body(f) \o <<"*">> \o f.checksum

\* The number a count / index field stands for (an empty field reads as 1).
FieldValue(field) ==
  IF field = <<>> THEN 1 ELSE CHOOSE n \in 0..9 : Digits[n + 1] = field[1]

\* The sentences the network may deliver: fragment num of a sentence carries
\* that fragment's slice.  The checksum directly behind the payload is seen on
\* channel A, the wrong checksums on grouped sentences of channel A.
SentFields ==
  {s \in [count : NumberFields, num : NumberFields, id : IdFields,
          channel : Channels, tail : Tails, sum : Sums] :
     /\ s.channel = <<"B">> => s.tail # <<>>
     /\ s.sum = "wrong" => (s.id # <<>> /\ s.channel = <<"A">> /\ s.tail # <<>>)}

(***************************************************************************)
(* Python string helpers.                                                  *)
(***************************************************************************)
Contains(s, c) == \E i \in 1..Len(s) : s[i] = c

FirstIndex(s, c) == CHOOSE i \in 1..Len(s) : s[i] = c /\ \A j \in 1..(i - 1) : s[j] # c

RECURSIVE Split(_, _)
\* s.split(c)
Split(s, c) ==
  IF ~Contains(s, c) THEN <<s>>
  ELSE LET i == FirstIndex(s, c)
       IN <<SubSeq(s, 1, i - 1)>> \o Split(SubSeq(s, i + 1, Len(s)), c)

IsNumber(s) == s # <<>> /\ \A i \in 1..Len(s) : \E n \in 0..9 : Digits[n + 1] = s[i]

RECURSIVE ToInt(_)
\* int(s) for a string of decimal digits.
ToInt(s) ==
  IF s = <<>> THEN 0
  ELSE 10 * ToInt(SubSeq(s, 1, Len(s) - 1))
       + (CHOOSE n \in 0..9 : Digits[n + 1] = s[Len(s)])

RECURSIVE Strip(_)
\* str.strip() for blanks.
Strip(s) ==
  IF s = <<>> THEN s
  ELSE IF Head(s) = " " THEN Strip(Tail(s))
  ELSE IF s[Len(s)] = " " THEN Strip(SubSeq(s, 1, Len(s) - 1))
  ELSE s

\* ord(c) for the characters on the wire.
Ord(c) ==
  CASE c = " " -> 32 [] c = "!" -> 33 [] c = "*" -> 42 [] c = "," -> 44
    [] c = "0" -> 48 [] c = "1" -> 49 [] c = "2" -> 50 [] c = "3" -> 51
    [] c = "4" -> 52 [] c = "5" -> 53 [] c = "6" -> 54 [] c = "7" -> 55
    [] c = "8" -> 56 [] c = "9" -> 57 [] c = "A" -> 65 [] c = "B" -> 66
    [] c = "C" -> 67 [] c = "D" -> 68 [] c = "E" -> 69 [] c = "F" -> 70
    [] c = "I" -> 73 [] c = "K" -> 75 [] c = "M" -> 77 [] c = "P" -> 80
    [] c = "V" -> 86 [] c = "x" -> 120

RECURSIVE Xor(_, _)
\* a ^ b
Xor(a, b) ==
  IF a = 0 THEN b
  ELSE IF b = 0 THEN a
  ELSE (((a % 2) + (b % 2)) % 2) + (2 * Xor(a \div 2, b \div 2))

RECURSIVE XorAll(_)
\* calculated ^= ord(char) over the characters of s
XorAll(s) == IF s = <<>> THEN 0 ELSE Xor(Ord(Head(s)), XorAll(Tail(s)))

HexDigits == <<"0", "1", "2", "3", "4", "5", "6", "7", "8", "9",
               "A", "B", "C", "D", "E", "F">>

\* The two hexadecimal digits of a byte, as a sender writes them.
Hex(n) == <<HexDigits[(n \div 16) + 1], HexDigits[(n % 16) + 1]>>

\* int(s, 16) succeeds (for the strings on the wire: no sign, blank or prefix).
IsHex(s) == s # <<>> /\ \A i \in 1..Len(s) : \E n \in 0..15 : HexDigits[n + 1] = s[i]

RECURSIVE HexToInt(_)
\* int(s, 16)
HexToInt(s) ==
  IF s = <<>> THEN 0
  ELSE (16 * HexToInt(SubSeq(s, 1, Len(s) - 1)))
       + (CHOOSE n \in 0..15 : HexDigits[n + 1] = s[Len(s)])

\* The sentence on the wire for the fields s: its checksum is the exclusive-or
\* of the characters between "!" and "*", or that value with the last bit turned.
Wire(s) ==
  LET f == [count |-> s.count, num |-> s.num, id |-> s.id, channel |-> s.channel,
            payload |-> SliceOf(FieldValue(s.num)), tail |-> s.tail]
      right == XorAll(Body(f))
  IN [count |-> f.count, num |-> f.num, id |-> f.id, channel |-> f.channel,
      payload |-> f.payload, tail |-> f.tail,
      checksum |-> Hex(IF s.sum = "right" THEN right ELSE Xor(right, 1))]

(***************************************************************************)
(* AISDecoder                                                              *)
(***************************************************************************)
Seen(frags, message_id) ==
  IF message_id \in DOMAIN frags THEN frags[message_id] ELSE {}

Without(frags, message_id) ==
  [k \in DOMAIN frags \ {message_id} |-> frags[k]]

With(frags, message_id, indices) ==
  [k \in DOMAIN frags \cup {message_id} |->
     IF k = message_id THEN indices ELSE frags[k]]

\* A variant that forgets the group as soon as an index arrives twice.
is_message_complete_reset(frags, message_id, fragment_number, fragment_count) ==
  IF message_id = NoneStr \/ fragment_count = 1
  THEN [complete |-> TRUE, frags |-> frags]
  ELSE LET indices == IF fragment_number \in Seen(frags, message_id)
                      THEN {fragment_number}
                      ELSE Seen(frags, message_id) \cup {fragment_number}
           is_complete == indices = 1..fragment_count
       IN [complete |-> is_complete,
           frags |-> IF is_complete THEN Without(frags, message_id)
                     ELSE With(frags, message_id, indices)]

\* A variant that counts the indices seen instead of comparing the sets, and
\* keeps the group after reporting it.
is_message_complete_count(frags, message_id, fragment_number, fragment_count) ==
  IF message_id = NoneStr \/ fragment_count = 1
  THEN [complete |-> TRUE, frags |-> frags]
  ELSE LET indices == Seen(frags, message_id) \cup {fragment_number}
       IN [complete |-> Cardinality(indices) >= fragment_count,
           frags |-> With(frags, message_id, indices)]

\* AISDecoder._is_message_complete: the answer and the fragment map it leaves.
is_message_complete(frags, message_id, fragment_number, fragment_count) ==
  IF message_id = NoneStr \/ fragment_count = 1
  THEN [complete |-> TRUE, frags |-> frags]
  ELSE LET indices == Seen(frags, message_id) \cup {fragment_number}
           is_complete == indices = 1..fragment_count
       IN [complete |-> is_complete,
           frags |-> IF is_complete THEN Without(frags, message_id)
                     ELSE With(frags, message_id, indices)]

\* A variant of parse_nmea_message's completeness test without the
\* single-fragment short cut: every sentence is recorded in the map.
completeness_always_recorded(frags, message_id, fragment_number, fragment_count) ==
  LET indices == Seen(frags, message_id) \cup {fragment_number}
  IN [complete |-> indices = 1..fragment_count,
      frags |-> IF indices = 1..fragment_count THEN Without(frags, message_id)
                ELSE With(frags, message_id, indices)]

\* Line 46: fragment_count == 1 or self._is_message_complete(...)
completeness(frags, message_id, fragment_number, fragment_count) ==
  IF fragment_count = 1
  THEN [complete |-> TRUE, frags |-> frags]
  ELSE is_message_complete(frags, message_id, fragment_number, fragment_count)

\* AISDecoder.parse_nmea_message, lines 13-33: the fields of the sentence, or
\* Malformed where the code returns None or an exception is caught.
\* The record's 'raw' and 'timestamp' entries are left out.
Malformed == [malformed |-> TRUE]

\* A variant that reads a count or index that is not a number as 1.
nmea_fields_lenient(message) ==
  LET stripped == Strip(message)
      parts == Split(stripped, ",")
  IN
  IF stripped = <<>> \/ stripped[1] # "!" THEN Malformed
  ELSE IF Len(parts) < 6 THEN Malformed
  ELSE
    LET pieces == Split(parts[6], "*")
    IN
    IF Len(pieces) > 2 THEN Malformed
    ELSE [talker_id |-> SubSeq(parts[1], 2, 3),
          sentence_type |-> SubSeq(parts[1], 4, Len(parts[1])),
          fragment_count |-> IF IsNumber(parts[2]) THEN ToInt(parts[2]) ELSE 1,
          fragment_number |-> IF IsNumber(parts[3]) THEN ToInt(parts[3]) ELSE 1,
          message_id |-> IF parts[4] # <<>> THEN parts[4] ELSE NoneStr,
          channel |-> parts[5],
          data |-> pieces[1],
          checksum |-> IF Len(pieces) = 2 THEN pieces[2] ELSE NoneStr]

\* Lines 13-33 of parse_nmea_message.
nmea_fields(message) ==
  LET stripped == Strip(message)
      parts == Split(stripped, ",")
  IN
  IF stripped = <<>> \/ stripped[1] # "!" THEN Malformed
  ELSE IF Len(parts) < 6 THEN Malformed
  ELSE IF (parts[2] # <<>> /\ ~IsNumber(parts[2]))
          \/ (parts[3] # <<>> /\ ~IsNumber(parts[3])) THEN Malformed
  ELSE
    LET pieces == Split(parts[6], "*")
    IN
    IF Len(pieces) > 2 THEN Malformed
    ELSE [talker_id |-> SubSeq(parts[1], 2, 3),
          sentence_type |-> SubSeq(parts[1], 4, Len(parts[1])),
          fragment_count |-> IF parts[2] # <<>> THEN ToInt(parts[2]) ELSE 1,
          fragment_number |-> IF parts[3] # <<>> THEN ToInt(parts[3]) ELSE 1,
          message_id |-> IF parts[4] # <<>> THEN parts[4] ELSE NoneStr,
          channel |-> parts[5],
          data |-> pieces[1],
          checksum |-> IF Len(pieces) = 2 THEN pieces[2] ELSE NoneStr]

\* AISDecoder.get_ais_message_type: the value of the first payload character.
get_ais_message_type(payload) ==
  IF payload = <<>> THEN None
  ELSE LET code == Ord(payload[1])
       IN IF code >= 48 /\ code <= 63 THEN (code - 48) % 64
          ELSE IF code >= 64 /\ code <= 95 THEN ((code - 64) + 16) % 64
          ELSE None

\* AISDecoder.validate_checksum.  The text is taken as it is given: the first
\* character is dropped whatever it is; a second "*" or a checksum that is not
\* a hexadecimal number raises, and the bare except answers False.
validate_checksum(message) ==
  IF ~Contains(message, "*") THEN FALSE
  ELSE LET pieces == Split(message, "*")
       IN IF Len(pieces) # 2 THEN FALSE
          ELSE LET msg_part == SubSeq(pieces[1], 2, Len(pieces[1]))
               IN IF ~IsHex(pieces[2]) THEN FALSE
                  ELSE XorAll(msg_part) = HexToInt(pieces[2])

\* The texts the network may deliver: well-formed sentences, and sentences
\* without the start marker, with too few fields, or with a fragment count or
\* index that is not a number.
RightTexts == {Sentence(Wire(s)) : s \in {c \in SentFields : c.sum = "right"}}
WrongTexts == {Sentence(Wire(s)) : s \in {c \in SentFields : c.sum = "wrong"}}

MalformedBase ==
  {Wire([count |-> <<"2">>, num |-> n, id |-> <<"1">>, channel |-> <<"A">>,
         tail |-> <<",", "0">>, sum |-> "right"]) : n \in {<<"1">>, <<"2">>}}

MalformedTexts ==
  UNION {{Tail(Sentence(f)),
          SubSeq(Sentence(f), 1, 14),
          Sentence([f EXCEPT !.count = <<"x">>]),
          Sentence([f EXCEPT !.num = <<"x">>])} : f \in MalformedBase}

\* What parse works on for one text: the fields parse_nmea_message reads from
\* it and the answer of validate_checksum for it.
Delivery(text, kind) ==
  [kind |-> kind, fields |-> nmea_fields(text),
   checksum_valid |-> validate_checksum(text)]

Deliverable ==
  {Delivery(t, "right") : t \in RightTexts}
    \cup {Delivery(t, "wrong") : t \in WrongTexts}
    \cup {Delivery(t, "malformed") : t \in MalformedTexts}

\* AISDecoder.parse_nmea_message, lines 35-49, on the fields f of a sentence:
\* [ret |-> None or the record returned, frags |-> the fragment map it leaves].
parse_nmea_message(frags, f) ==
  IF f = Malformed THEN [ret |-> None, frags |-> frags]
  ELSE
    LET c == completeness(frags, f.message_id, f.fragment_number, f.fragment_count)
    IN [ret |-> [talker_id |-> f.talker_id,
                 sentence_type |-> f.sentence_type,
                 fragment_count |-> f.fragment_count,
                 fragment_number |-> f.fragment_number,
                 message_id |-> f.message_id,
                 channel |-> f.channel,
                 data |-> f.data,
                 checksum |-> f.checksum,
                 is_complete |-> c.complete],
        frags |-> c.frags]

\* Lines 114-115 of parse: the record with the two entries added.
with_parsing_results(parsed, d) ==
  [talker_id |-> parsed.talker_id,
   sentence_type |-> parsed.sentence_type,
   fragment_count |-> parsed.fragment_count,
   fragment_number |-> parsed.fragment_number,
   message_id |-> parsed.message_id,
   channel |-> parsed.channel,
   data |-> parsed.data,
   checksum |-> parsed.checksum,
   is_complete |-> parsed.is_complete,
   ais_message_type |-> get_ais_message_type(parsed.data),
   checksum_valid |-> d.checksum_valid]

\* A variant of parse that drops a sentence whose checksum does not match.
parse_dropping_mismatch(frags, d) ==
  LET out == parse_nmea_message(frags, d.fields)
  IN [ret |-> IF d.fields = Malformed \/ ~d.checksum_valid THEN None
              ELSE with_parsing_results(out.ret, d),
      frags |-> out.frags]

\* AISDecoder.parse on the delivery d of a text: None, or the record of
\* parse_nmea_message with ais_message_type and checksum_valid added.
parse(frags, d) ==
  LET out == parse_nmea_message(frags, d.fields)
  IN [ret |-> IF d.fields = Malformed THEN None ELSE with_parsing_results(out.ret, d),
      frags |-> out.frags]

\* A multi-fragment sentence with a group identifier.
Grouped(r) == r # None /\ r.fragment_count > 1 /\ r.message_id # NoneStr

\* AISDecoder.parse on one received sentence.
Parse(d) ==
  LET out == parse(message_fragments, d)
      r == out.ret
      fed == IF Grouped(r)
             THEN Seen(channels_of, r.message_id) \cup {r.channel} ELSE {}
  IN /\ result' = r
     /\ message_fragments' = out.frags
     /\ fragments_before' = message_fragments
     /\ last_channels' = fed
     /\ channels_of' =
          [k \in DOMAIN out.frags |->
             IF Grouped(r) /\ k = r.message_id THEN fed ELSE Seen(channels_of, k)]
     /\ stale' = stale \cap DOMAIN out.frags
     /\ received' = d.kind
     /\ validated' = validated
     /\ UNCHANGED storeVars

\* The eviction window passes: every group now buffered has waited longer than it.
\* AISDecoder has no sweep, so nothing else happens.
EvictionWindowElapses ==
  /\ stale' = DOMAIN message_fragments
  /\ stale' # stale
  /\ UNCHANGED <<message_fragments, result, fragments_before, channels_of,
                 last_channels, received, validated>>
  /\ UNCHANGED storeVars

DecoderInit ==
  /\ message_fragments = <<>>
  /\ result = None
  /\ fragments_before = <<>>
  /\ channels_of = <<>>
  /\ last_channels = {}
  /\ stale = {}
  /\ received = "nothing"
  /\ validated = None

DecoderNext ==
  \/ \E d \in Deliverable : Parse(d)
  \/ EvictionWindowElapses

(***************************************************************************)
(* validate_checksum called on its own.                                    *)
(***************************************************************************)
\* The sentences the validator is tried on.
CheckedFields == {s \in SentFields : s.id = <<"1">> /\ s.channel = <<"A">>}
CheckedTexts == {Sentence(Wire(s)) : s \in CheckedFields}

\* A sentence with a right checksum and one payload character changed.
PayloadChars == {ArmorChars[k] : k \in 1..Len(ArmorChars)} \cup {"0"}

FlipChoices ==
  {z \in [f : {Wire(c) : c \in {k \in CheckedFields : k.sum = "right"}},
          i : 1..2, c : PayloadChars] : z.c # z.f.payload[z.i]}

FlippedTexts ==
  {Sentence([z.f EXCEPT !.payload = [@ EXCEPT ![z.i] = z.c]]) : z \in FlipChoices}

\* The texts validate_checksum is called with: sentences, sentences cut before
\* the checksum marker, with a blank in front, without the start marker, with a
\* second marker, with a checksum that is no number or is missing, and
\* sentences with a changed payload.
ChecksumInputs ==
  CheckedTexts
    \cup {SubSeq(t, 1, Len(t) - 3) : t \in CheckedTexts}
    \cup {<<" ">> \o t : t \in CheckedTexts}
    \cup {Tail(t) : t \in CheckedTexts}
    \cup {t \o <<"*", "0", "0">> : t \in CheckedTexts}
    \cup {SubSeq(t, 1, Len(t) - 2) \o <<"x", "x">> : t \in CheckedTexts}
    \cup {SubSeq(t, 1, Len(t) - 2) : t \in CheckedTexts}
    \cup FlippedTexts

Validations == {[message |-> t, valid |-> validate_checksum(t)] : t \in ChecksumInputs}

\* decoder.validate_checksum(message)
ValidateChecksum(v) ==
  /\ validated' = v
  /\ UNCHANGED <<message_fragments, result, fragments_before, channels_of,
                 last_channels, stale, received>>
  /\ UNCHANGED storeVars

ChecksumNext == \E v \in Validations : ValidateChecksum(v)

(***************************************************************************)
(* Part 2.  main.py: sort_ais and ValkeyAISStore                           *)
(*                                                                         *)
(* The ingestion thread handles one decoded message at a time              *)
(* (AISMessageHandler.handle_message, sort_ais, the update methods).  Each *)
(* store command is one step, so that every state a concurrent reader can  *)
(* find the store in is a state of the model.  Time is in seconds and      *)
(* passes between messages.                                                *)
(***************************************************************************)
\* Messages written to the store before the model stops receiving.
MaxReports == 2
\* Times the clock is advanced.
MaxTicks == 1

\* self.client.expire(position_key, 3600)
PositionTTL == 3600
\* timedelta(hours=24), in seconds
HistoryRetention == 86400

MMSIs == {1, 2}
NoMmsi == 0
NoTTL == -1
Never == -1
Empty == <<>>
NoPoint == [lat |-> 0, lon |-> 0]

\* The time zones the process may run in.
UtcOffsets == {0, 7200}
\* How far the clock moves between two messages.
TickSteps == {PositionTTL, HistoryRetention + PositionTTL}

\* The coordinates reported: two places, a place on the equator, and the
\* not-available sentinel pair.
Points ==
  {[lat |-> 10, lon |-> 10], [lat |-> 10, lon |-> 20],
   [lat |-> 0, lon |-> 20], [lat |-> 91, lon |-> 181]}

\* Vessel names as received (padded with blanks), and registry numbers.
Names == {<<" ">>, <<"E", " ">>}
Imos == {0, 9}

\* The decoded messages the receiver hands over.
PositionMessages ==
  [msg_type : {1, 18}, mmsi : MMSIs \cup {NoMmsi}, point : Points]
StaticMessages ==
  [msg_type : {5}, mmsi : MMSIs \cup {NoMmsi}, shipname : Names, imo : Imos]
Messages == PositionMessages \cup StaticMessages

\* A variant that tests the vessel name as received, without str.strip().
sort_ais_untrimmed(msg) ==
  IF msg.msg_type \in {1, 2, 3, 18}
  THEN IF msg.mmsi # 0 /\ msg.point.lat # 0 /\ msg.point.lon # 0
       THEN [call |-> "update_ship_position", mmsi |-> msg.mmsi,
             latitude |-> msg.point.lat, longitude |-> msg.point.lon,
             message_type |-> msg.msg_type,
             has_rot |-> msg.msg_type # 18, has_nav_status |-> msg.msg_type # 18]
       ELSE [call |-> "discard"]
  ELSE IF msg.msg_type = 5
  THEN IF msg.mmsi # 0 /\ msg.shipname # <<>>
       THEN [call |-> "update_ship_info", mmsi |-> msg.mmsi,
             name |-> msg.shipname, imo |-> msg.imo]
       ELSE [call |-> "discard"]
  ELSE IF msg.msg_type = 4
  THEN IF msg.mmsi # 0
       THEN [call |-> "update_base_station", mmsi |-> msg.mmsi,
             latitude |-> msg.point.lat, longitude |-> msg.point.lon]
       ELSE [call |-> "discard"]
  ELSE [call |-> "discard"]

\* sort_ais on one message: the store method it calls and the record it passes,
\* or "discard".  Class A reports (1, 2, 3) carry turn and status, class B
\* reports (18) do not; a base station report (4) needs an MMSI only.
sort_ais(msg) ==
  IF msg.msg_type \in {1, 2, 3, 18}
  THEN IF msg.mmsi # 0 /\ msg.point.lat # 0 /\ msg.point.lon # 0
       THEN [call |-> "update_ship_position", mmsi |-> msg.mmsi,
             latitude |-> msg.point.lat, longitude |-> msg.point.lon,
             message_type |-> msg.msg_type,
             has_rot |-> msg.msg_type # 18, has_nav_status |-> msg.msg_type # 18]
       ELSE [call |-> "discard"]
  ELSE IF msg.msg_type = 5
  THEN IF msg.mmsi # 0 /\ Strip(msg.shipname) # <<>>
       THEN [call |-> "update_ship_info", mmsi |-> msg.mmsi,
             name |-> Strip(msg.shipname), imo |-> msg.imo]
       ELSE [call |-> "discard"]
  ELSE IF msg.msg_type = 4
  THEN IF msg.mmsi # 0
       THEN [call |-> "update_base_station", mmsi |-> msg.mmsi,
             latitude |-> msg.point.lat, longitude |-> msg.point.lon]
       ELSE [call |-> "discard"]
  ELSE [call |-> "discard"]

\* position_data of update_ship_position (lines 44-61).  sog, cog, accuracy,
\* heading and the two timestamps are left out.
position_data(d) ==
  LET base == [f \in {"mmsi", "lat", "lon", "message_type"} |->
                 CASE f = "mmsi" -> d.mmsi
                   [] f = "lat" -> d.latitude
                   [] f = "lon" -> d.longitude
                   [] f = "message_type" -> d.message_type]
      optional == {f \in {"rot", "nav_status"} :
                     \/ f = "rot" /\ d.has_rot
                     \/ f = "nav_status" /\ d.has_nav_status}
  IN [f \in DOMAIN base \cup optional |-> IF f \in DOMAIN base THEN base[f] ELSE 1]

\* HSET key mapping: the fields given are written, the others stay.
HSet(hash, mapping) ==
  [f \in DOMAIN hash \cup DOMAIN mapping |->
     IF f \in DOMAIN mapping THEN mapping[f] ELSE hash[f]]

\* GEOADD accepts longitudes in -180..180 and latitudes in -85.05..85.05.
GeoValid(lon, lat) == lon >= -180 /\ lon <= 180 /\ lat >= -85 /\ lat <= 85

Abs(x) == IF x < 0 THEN -x ELSE x
\* The distance between two places, in degrees along the grid.
GeoDist(lon1, lat1, lon2, lat2) == Abs(lon1 - lon2) + Abs(lat1 - lat2)

\* A variant that adds the entry and leaves an older entry of the member.
GeoAddKeepingOld(geo, lon, lat, member) ==
  geo \cup {[member |-> member, lon |-> lon, lat |-> lat]}

\* GEOADD key lon lat member: the member's entry is replaced.
GeoAdd(geo, lon, lat, member) ==
  {e \in geo : e.member # member} \cup {[member |-> member, lon |-> lon, lat |-> lat]}

\* GEORADIUS key lon lat radius WITHCOORD
GeoRadius(geo, lon, lat, radius) ==
  {e \in geo : GeoDist(e.lon, e.lat, lon, lat) <= radius}

\* ZREMRANGEBYSCORE key 0 cutoff
ZRemRangeByScore(zset, cutoff) == {e \in zset : ~(e.score >= 0 /\ e.score <= cutoff)}

\* Line 77: int((datetime.utcnow() - timedelta(hours=24)).timestamp()).
\* utcnow() is a naive datetime showing UTC; timestamp() reads a naive datetime
\* as local time.
cutoff_at(t, offset) == (t - HistoryRetention) - offset

\* A variant that sets no expiry.
NoExpiry(t) == NoTTL

\* EXPIRE key 3600 at time t: the time the key expires at.
ExpireAt(t) == t + PositionTTL

(***************************************************************************)
(* The ingestion thread.                                                   *)
(***************************************************************************)
Idle == [call |-> "discard"]

\* No scraper call has been made.
NoCall == [state |-> "none", since |-> 0]

\* AISMessageHandler.handle_message: sort_ais on the next decoded message.
Receive(msg) ==
  LET d == sort_ais(msg)
  IN /\ pc = "idle"
     /\ receiver = "running"
     /\ reports < MaxReports
     /\ d.call # "discard"
     /\ data' = d
     /\ pc' = CASE d.call = "update_ship_position" -> "hset"
                 [] d.call = "update_ship_info" -> "info_hset"
                 [] d.call = "update_base_station" -> "base_hset"
     /\ reports' = reports + 1
     /\ fresh' = NoMmsi
     /\ IF d.call = "update_ship_position"
        THEN /\ latest' = [latest EXCEPT ![d.mmsi] =
                             [lat |-> d.latitude, lon |-> d.longitude]]
             /\ completed' = [completed EXCEPT ![d.mmsi] = FALSE]
        ELSE UNCHANGED <<latest, completed>>
     /\ UNCHANGED <<now, utcoffset, position, position_ttl, locations, history,
                    info, imo_index, ticks, refreshed, had_static, appended>>
     /\ UNCHANGED <<decoderVars, opsVars, serverVars>>

\* A message sort_ais discards: nothing is written.
Discard(msg) ==
  /\ pc = "idle"
  /\ receiver = "running"
  /\ sort_ais(msg).call = "discard"
  /\ fresh # NoMmsi
  /\ fresh' = NoMmsi
  /\ UNCHANGED <<now, utcoffset, position, position_ttl, locations, history, info,
                 imo_index, pc, data, reports, ticks, latest, completed, refreshed,
                 had_static, appended>>
  /\ UNCHANGED <<decoderVars, opsVars, serverVars>>

\* A variant in which update_ship_position first waits for the scraper call
\* that is under way.
PositionHSetAfterEnrichment ==
  /\ pc = "hset"
  /\ receiver = "running" /\ available
  /\ enrichment.state # "pending"
  /\ position' = [position EXCEPT ![data.mmsi] = HSet(@, position_data(data))]
  /\ pc' = "expire"
  /\ UNCHANGED <<now, utcoffset, position_ttl, locations, history, info, imo_index,
                 data, reports, ticks, latest, completed, refreshed, had_static,
                 appended, fresh>>
  /\ UNCHANGED <<decoderVars, opsVars, serverVars>>

\* Line 63: self.client.hset(position_key, mapping=position_data)
PositionHSet ==
  /\ pc = "hset"
  /\ receiver = "running" /\ available
  /\ position' = [position EXCEPT ![data.mmsi] = HSet(@, position_data(data))]
  /\ pc' = "expire"
  /\ UNCHANGED <<now, utcoffset, position_ttl, locations, history, info, imo_index,
                 data, reports, ticks, latest, completed, refreshed, had_static,
                 appended, fresh>>
  /\ UNCHANGED <<decoderVars, opsVars, serverVars>>

\* Line 64: self.client.expire(position_key, 3600)
PositionExpire ==
  /\ pc = "expire"
  /\ receiver = "running" /\ available
  /\ position_ttl' = [position_ttl EXCEPT ![data.mmsi] = ExpireAt(now)]
  /\ refreshed' = [refreshed EXCEPT ![data.mmsi] = now]
  /\ pc' = "geoadd"
  /\ UNCHANGED <<now, utcoffset, position, locations, history, info, imo_index,
                 data, reports, ticks, latest, completed, had_static, appended, fresh>>
  /\ UNCHANGED <<decoderVars, opsVars, serverVars>>

\* Lines 66-70: geoadd when latitude and longitude are truthy.  The store
\* refuses coordinates out of range; the exception leaves update_ship_position
\* and is caught in sort_ais (lines 345-347).
PositionGeoAdd ==
  /\ pc = "geoadd"
  /\ receiver = "running" /\ available
  /\ IF data.latitude # 0 /\ data.longitude # 0
     THEN IF GeoValid(data.longitude, data.latitude)
          THEN /\ locations' = GeoAdd(locations, data.longitude, data.latitude, data.mmsi)
               /\ pc' = "zadd"
               /\ data' = data
          ELSE /\ locations' = locations
               /\ pc' = "idle"
               /\ data' = Idle
     ELSE /\ locations' = locations
          /\ pc' = "zadd"
          /\ data' = data
  /\ UNCHANGED <<now, utcoffset, position, position_ttl, history, info, imo_index,
                 reports, ticks, latest, completed, refreshed, had_static, appended,
                 fresh>>
  /\ UNCHANGED <<decoderVars, opsVars, serverVars>>

\* Lines 72-74: zadd(history_key, {json.dumps(position_data): int(time.time())}).
\* The member holds last_seen to the microsecond, so no two members are equal:
\* seq stands for it.
HistoryZAdd ==
  LET entry == [score |-> now, seq |-> reports]
  IN /\ pc = "zadd"
     /\ receiver = "running" /\ available
     /\ history' = [history EXCEPT ![data.mmsi] = @ \cup {entry}]
     /\ appended' = [appended EXCEPT ![data.mmsi] = @ \cup {entry}]
     /\ pc' = "zrem"
     /\ UNCHANGED <<now, utcoffset, position, position_ttl, locations, info,
                    imo_index, data, reports, ticks, latest, completed, refreshed,
                    had_static, fresh>>
     /\ UNCHANGED <<decoderVars, opsVars, serverVars>>

\* Lines 77-78: zremrangebyscore(history_key, 0, cutoff); the method returns.
HistoryTrim ==
  /\ pc = "zrem"
  /\ receiver = "running" /\ available
  /\ history' = [history EXCEPT ![data.mmsi] =
                   ZRemRangeByScore(@, cutoff_at(now, utcoffset))]
  /\ completed' = [completed EXCEPT ![data.mmsi] = TRUE]
  /\ fresh' = data.mmsi
  /\ pc' = "idle"
  /\ data' = Idle
  /\ UNCHANGED <<now, utcoffset, position, position_ttl, locations, info, imo_index,
                 reports, ticks, latest, refreshed, had_static, appended>>
  /\ UNCHANGED <<decoderVars, opsVars, serverVars>>

\* ship_info of update_ship_info (lines 87-104); callsign, ship type,
\* dimensions and voyage fields are left out.
ship_info(d) ==
  [f \in {"mmsi", "vessel_name", "imo"} |->
     CASE f = "mmsi" -> d.mmsi
       [] f = "vessel_name" -> d.name
       [] f = "imo" -> d.imo]

\* A variant that writes the index entry where the static hash is to be
\* written.
InfoHSetIndexFirst ==
  /\ pc = "info_hset"
  /\ receiver = "running" /\ available
  /\ imo_index' = IF data.imo # 0 THEN [imo_index EXCEPT ![data.imo] = data.mmsi]
                  ELSE imo_index
  /\ pc' = "imo_set"
  /\ UNCHANGED <<now, utcoffset, position, position_ttl, locations, history, info,
                 data, reports, ticks, latest, completed, refreshed, had_static,
                 appended, fresh>>
  /\ UNCHANGED <<decoderVars, opsVars, serverVars>>

\* Line 106: self.client.hset(info_key, mapping=ship_info)
InfoHSet ==
  /\ pc = "info_hset"
  /\ receiver = "running" /\ available
  /\ info' = [info EXCEPT ![data.mmsi] = HSet(@, ship_info(data))]
  /\ had_static' = [had_static EXCEPT ![data.mmsi] = TRUE]
  /\ pc' = "imo_set"
  /\ UNCHANGED <<now, utcoffset, position, position_ttl, locations, history,
                 imo_index, data, reports, ticks, latest, completed, refreshed,
                 appended, fresh>>
  /\ UNCHANGED <<decoderVars, opsVars, serverVars>>

\* A variant that writes the IMO index only when the number has no entry yet.
ImoIndexSetIfAbsent ==
  /\ pc = "imo_set"
  /\ receiver = "running" /\ available
  /\ imo_index' = IF data.imo # 0 /\ imo_index[data.imo] = NoMmsi
                  THEN [imo_index EXCEPT ![data.imo] = data.mmsi]
                  ELSE imo_index
  /\ pc' = "idle"
  /\ data' = Idle
  /\ UNCHANGED <<now, utcoffset, position, position_ttl, locations, history, info,
                 reports, ticks, latest, completed, refreshed, had_static, appended,
                 fresh>>
  /\ UNCHANGED <<decoderVars, opsVars, serverVars>>

\* Lines 109-112: the IMO index is written when the number is not zero.
ImoIndexSet ==
  /\ pc = "imo_set"
  /\ receiver = "running" /\ available
  /\ imo_index' = IF data.imo # 0 THEN [imo_index EXCEPT ![data.imo] = data.mmsi]
                  ELSE imo_index
  /\ pc' = "idle"
  /\ data' = Idle
  /\ UNCHANGED <<now, utcoffset, position, position_ttl, locations, history, info,
                 reports, ticks, latest, completed, refreshed, had_static, appended,
                 fresh>>
  /\ UNCHANGED <<decoderVars, opsVars, serverVars>>

\* Time passes between two messages; the store drops the keys whose expiry
\* time has come.
Tick(d) ==
  LET expired == {m \in MMSIs : position_ttl[m] # NoTTL /\ position_ttl[m] <= now + d}
      station_expired == {m \in MMSIs : station_ttl[m] # NoTTL /\ station_ttl[m] <= now + d}
  IN /\ pc = "idle"
     /\ ticks < MaxTicks
     /\ now' = now + d
     /\ ticks' = ticks + 1
     /\ position' = [m \in MMSIs |-> IF m \in expired THEN Empty ELSE position[m]]
     /\ position_ttl' = [m \in MMSIs |-> IF m \in expired THEN NoTTL ELSE position_ttl[m]]
     /\ refreshed' = [m \in MMSIs |-> IF m \in expired THEN Never ELSE refreshed[m]]
     /\ fresh' = NoMmsi
     /\ station' = [m \in MMSIs |-> IF m \in station_expired THEN Empty ELSE station[m]]
     /\ station_ttl' = [m \in MMSIs |-> IF m \in station_expired THEN NoTTL ELSE station_ttl[m]]
     /\ UNCHANGED <<utcoffset, locations, history, info, imo_index, pc, data,
                    reports, latest, completed, had_static, appended>>
     /\ UNCHANGED <<available, receiver, enrichment, failed_at>>
     /\ UNCHANGED <<decoderVars, serverVars>>

(***************************************************************************)
(* Base station reports (type 4).                                          *)
(***************************************************************************)
\* self.client.expire(base_key, 86400)
StationTTL == 86400

\* base_data of update_base_station (lines 121-133); accuracy and the
\* timestamp fields are left out.
base_data(d) ==
  [f \in {"mmsi", "lat", "lon"} |->
     CASE f = "mmsi" -> d.mmsi
       [] f = "lat" -> d.latitude
       [] f = "lon" -> d.longitude]

\* A variant that writes the base station report under the vessel's static key.
BaseHSetOnStaticKey ==
  /\ pc = "base_hset"
  /\ receiver = "running" /\ available
  /\ info' = [info EXCEPT ![data.mmsi] = HSet(@, base_data(data))]
  /\ pc' = "base_expire"
  /\ UNCHANGED <<now, utcoffset, position, position_ttl, locations, history,
                 imo_index, data, reports, ticks, latest, completed, refreshed,
                 had_static, appended, fresh>>
  /\ UNCHANGED <<decoderVars, opsVars, serverVars>>

\* Line 135: self.client.hset(base_key, mapping=base_data)
BaseHSet ==
  /\ pc = "base_hset"
  /\ receiver = "running" /\ available
  /\ station' = [station EXCEPT ![data.mmsi] = HSet(@, base_data(data))]
  /\ pc' = "base_expire"
  /\ UNCHANGED <<now, utcoffset, position, position_ttl, locations, history, info,
                 imo_index, data, reports, ticks, latest, completed, refreshed,
                 had_static, appended, fresh>>
  /\ UNCHANGED <<available, receiver, station_ttl, enrichment, failed_at>>
  /\ UNCHANGED <<decoderVars, serverVars>>

\* Line 136: self.client.expire(base_key, 86400); the method returns.
BaseExpire ==
  /\ pc = "base_expire"
  /\ receiver = "running" /\ available
  /\ station_ttl' = [station_ttl EXCEPT ![data.mmsi] = now + StationTTL]
  /\ pc' = "idle"
  /\ data' = Idle
  /\ UNCHANGED <<now, utcoffset, position, position_ttl, locations, history, info,
                 imo_index, reports, ticks, latest, completed, refreshed,
                 had_static, appended, fresh>>
  /\ UNCHANGED <<available, receiver, station, enrichment, failed_at>>
  /\ UNCHANGED <<decoderVars, serverVars>>

(***************************************************************************)
(* Failures: the store out of reach, a message that does not decode, the   *)
(* process going away.                                                     *)
(***************************************************************************)
\* The connection to the store is lost: from now on every command raises
\* redis.ConnectionError.
StoreGoesDown ==
  /\ available
  /\ available' = FALSE
  /\ UNCHANGED <<now, utcoffset, position, position_ttl, locations, history, info,
                 imo_index, pc, data, reports, ticks, latest, completed, refreshed,
                 had_static, appended, fresh>>
  /\ UNCHANGED <<receiver, station, station_ttl, enrichment, failed_at>>
  /\ UNCHANGED <<decoderVars, serverVars>>

\* The store is in reach again.
StoreComesBack ==
  /\ ~available
  /\ available' = TRUE
  /\ UNCHANGED <<now, utcoffset, position, position_ttl, locations, history, info,
                 imo_index, pc, data, reports, ticks, latest, completed, refreshed,
                 had_static, appended, fresh>>
  /\ UNCHANGED <<receiver, station, station_ttl, enrichment, failed_at>>
  /\ UNCHANGED <<decoderVars, serverVars>>

\* A variant in which the exception of a store command leaves sort_ais and
\* handle_message and ends the loop of run_receiver.
CommandFailsAndEndsReceiver ==
  /\ pc # "idle"
  /\ receiver = "running"
  /\ ~available
  /\ pc' = "idle"
  /\ data' = Idle
  /\ failed_at' = reports
  /\ receiver' = "ended"
  /\ UNCHANGED <<now, utcoffset, position, position_ttl, locations, history, info,
                 imo_index, reports, ticks, latest, completed, refreshed,
                 had_static, appended, fresh>>
  /\ UNCHANGED <<available, station, station_ttl, enrichment>>
  /\ UNCHANGED <<decoderVars, serverVars>>

\* The command the thread is at raises.  The exception leaves the update
\* method and is caught by the except of sort_ais (lines 345-347), inside the
\* loop over the messages: the rest of this update is not done, sort_ais and
\* handle_message return, and the receiver goes on to the next message.
CommandFails ==
  /\ pc # "idle"
  /\ receiver = "running"
  /\ ~available
  /\ pc' = "idle"
  /\ data' = Idle
  /\ failed_at' = reports
  /\ UNCHANGED <<now, utcoffset, position, position_ttl, locations, history, info,
                 imo_index, reports, ticks, latest, completed, refreshed,
                 had_static, appended, fresh>>
  /\ UNCHANGED <<available, receiver, station, station_ttl, enrichment>>
  /\ UNCHANGED <<decoderVars, serverVars>>

\* handle_message, line 356: decoded_msg.decode() raises.  Nothing in
\* handle_message catches it; the try of run_receiver (lines 385-389) is around
\* the whole for loop, so its except is reached with the loop left: the
\* message is printed and run_receiver returns.
DecodeFails ==
  /\ pc = "idle"
  /\ receiver = "running"
  /\ receiver' = "ended"
  /\ UNCHANGED <<now, utcoffset, position, position_ttl, locations, history, info,
                 imo_index, pc, data, reports, ticks, latest, completed, refreshed,
                 had_static, appended, fresh>>
  /\ UNCHANGED <<available, station, station_ttl, enrichment, failed_at>>
  /\ UNCHANGED <<decoderVars, serverVars>>

\* The application shuts down.  lifespan does nothing after its yield (line
\* 400) and the receiver is a daemon thread (line 391) that nobody joins or
\* signals: it does not outlive the process, whatever it is doing.
Shutdown ==
  /\ receiver = "running"
  /\ receiver' = "killed"
  /\ UNCHANGED <<now, utcoffset, position, position_ttl, locations, history, info,
                 imo_index, pc, data, reports, ticks, latest, completed, refreshed,
                 had_static, appended, fresh>>
  /\ UNCHANGED <<available, station, station_ttl, enrichment, failed_at>>
  /\ UNCHANGED <<decoderVars, serverVars>>

(***************************************************************************)
(* The enrichment call of GET /ship/data/{mmsi} (get_ship_data).           *)
(***************************************************************************)
\* Lines 451-473: the static hash is read, and when it has a registry number
\* vessel_scraper.scrape_vessel_data(imo) is called.
EnrichmentRequest(mmsi) ==
  /\ enrichment.state # "pending"
  /\ available
  /\ info[mmsi] # Empty
  /\ info[mmsi]["imo"] # 0
  /\ enrichment' = [state |-> "pending", since |-> reports]
  /\ UNCHANGED <<now, utcoffset, position, position_ttl, locations, history, info,
                 imo_index, pc, data, reports, ticks, latest, completed, refreshed,
                 had_static, appended, fresh>>
  /\ UNCHANGED <<available, receiver, station, station_ttl, failed_at>>
  /\ UNCHANGED <<decoderVars, serverVars>>

\* The scraper returns the attributes it found (lines 475-481).
EnrichmentReturns ==
  /\ enrichment.state = "pending"
  /\ enrichment' = [enrichment EXCEPT !.state = "returned"]
  /\ UNCHANGED <<now, utcoffset, position, position_ttl, locations, history, info,
                 imo_index, pc, data, reports, ticks, latest, completed, refreshed,
                 had_static, appended, fresh>>
  /\ UNCHANGED <<available, receiver, station, station_ttl, failed_at>>
  /\ UNCHANGED <<decoderVars, serverVars>>

\* The scraper fails (scraper.py returns None, or lines 483-489).
EnrichmentFails ==
  /\ enrichment.state = "pending"
  /\ enrichment' = [enrichment EXCEPT !.state = "failed"]
  /\ UNCHANGED <<now, utcoffset, position, position_ttl, locations, history, info,
                 imo_index, pc, data, reports, ticks, latest, completed, refreshed,
                 had_static, appended, fresh>>
  /\ UNCHANGED <<available, receiver, station, station_ttl, failed_at>>
  /\ UNCHANGED <<decoderVars, serverVars>>

(***************************************************************************)
(* The read operations, each on the store as it is at one moment.          *)
(***************************************************************************)
\* A variant whose 'found' looks at the position hash only.
get_ship_details_position_only(mmsi) ==
  [mmsi |-> mmsi, position |-> position[mmsi], info |-> info[mmsi],
   found |-> (position[mmsi] # Empty)]

\* ValkeyAISStore.get_ship_details
get_ship_details(mmsi) ==
  [mmsi |-> mmsi, position |-> position[mmsi], info |-> info[mmsi],
   found |-> (position[mmsi] # Empty \/ info[mmsi] # Empty)]

\* A variant without the 'if position:' of line 155.
get_ships_in_area_unfiltered(center_lat, center_lon, radius) ==
  IF ~GeoValid(center_lon, center_lat) THEN {}
  ELSE {[mmsi |-> e.member, position |-> position[e.member], info |-> info[e.member]] :
          e \in GeoRadius(locations, center_lon, center_lat, radius)}

\* ValkeyAISStore.get_ships_in_area: the ships of the geo set within the radius
\* whose position hash exists; [] when the store refuses the centre.
get_ships_in_area(center_lat, center_lon, radius) ==
  IF ~GeoValid(center_lon, center_lat) THEN {}
  ELSE {[mmsi |-> e.member, position |-> position[e.member], info |-> info[e.member]] :
          e \in {n \in GeoRadius(locations, center_lon, center_lat, radius) :
                   position[n.member] # Empty}}

\* A variant that reads the static hash only.
get_ship_by_imo_static_only(imo) ==
  LET mmsi == imo_index[imo]
  IN IF mmsi = NoMmsi
     THEN [imo |-> imo, found |-> FALSE,
           message |-> "No ship data found for IMO", ship |-> None]
     ELSE [imo |-> imo, found |-> TRUE,
           ship |-> [mmsi |-> mmsi, imo |-> imo, vessel_info |-> info[mmsi],
                     position |-> Empty]]

\* ValkeyAISStore.get_ship_by_imo: the MMSI is looked up in the IMO index, then
\* the two hashes are read; 'found' is True whenever the index has the number.
get_ship_by_imo(imo) ==
  LET mmsi == imo_index[imo]
  IN IF mmsi = NoMmsi
     THEN [imo |-> imo, found |-> FALSE,
           message |-> "No ship data found for IMO", ship |-> None]
     ELSE [imo |-> imo, found |-> TRUE,
           ship |-> [mmsi |-> mmsi, imo |-> imo, vessel_info |-> info[mmsi],
                     position |-> position[mmsi]]]

\* What the caller of a read gets, the store in or out of reach.
\* get_ships_in_area, lines 142-165: the whole body is in a try whose except
\* prints the error and returns [].
ships_in_area_answer(center_lat, center_lon, radius) ==
  IF available
  THEN [ships |-> get_ships_in_area(center_lat, center_lon, radius)]
  ELSE [ships |-> {}]

\* get_ship_details, lines 167-177: no try, the exception of hgetall reaches
\* the caller.
ship_details_answer(mmsi) ==
  IF available
  THEN get_ship_details(mmsi)
  ELSE [raised |-> "ConnectionError"]

\* get_ship_by_imo, lines 181-219: the except returns found False with the
\* text of the exception under 'error'.
ship_by_imo_answer(imo) ==
  IF available
  THEN get_ship_by_imo(imo)
  ELSE [imo |-> imo, found |-> FALSE, error |-> "ConnectionError", ship |-> None]

StoreInit ==
  /\ DecoderInit
  /\ now = 0
  /\ utcoffset \in UtcOffsets
  /\ position = [m \in MMSIs |-> Empty]
  /\ position_ttl = [m \in MMSIs |-> NoTTL]
  /\ locations = {}
  /\ history = [m \in MMSIs |-> {}]
  /\ info = [m \in MMSIs |-> Empty]
  /\ imo_index = [i \in Imos \ {0} |-> NoMmsi]
  /\ pc = "idle"
  /\ data = Idle
  /\ reports = 0
  /\ ticks = 0
  /\ latest = [m \in MMSIs |-> NoPoint]
  /\ completed = [m \in MMSIs |-> FALSE]
  /\ refreshed = [m \in MMSIs |-> Never]
  /\ had_static = [m \in MMSIs |-> FALSE]
  /\ appended = [m \in MMSIs |-> {}]
  /\ fresh = NoMmsi
  /\ available = TRUE
  /\ receiver = "running"
  /\ station = [m \in MMSIs |-> Empty]
  /\ station_ttl = [m \in MMSIs |-> NoTTL]
  /\ enrichment = NoCall
  /\ failed_at = Never
  /\ message_count = 0
  /\ error_count = 0
  /\ handled = None

StoreNext ==
  \/ \E msg \in Messages : Receive(msg)
  \/ \E msg \in Messages : Discard(msg)
  \/ PositionHSet
  \/ PositionExpire
  \/ PositionGeoAdd
  \/ HistoryZAdd
  \/ HistoryTrim
  \/ InfoHSet
  \/ ImoIndexSet
  \/ \E d \in TickSteps : Tick(d)

\* The messages of the specifications with failures: a position report, a
\* static report and a base station report of one vessel number.
OpsMessages ==
  {[msg_type |-> 1, mmsi |-> 1, point |-> [lat |-> 10, lon |-> 10]],
   [msg_type |-> 5, mmsi |-> 1, shipname |-> <<"E", " ">>, imo |-> 9],
   [msg_type |-> 4, mmsi |-> 1, point |-> [lat |-> 10, lon |-> 10]]}

\* A store command of the ingestion thread.
IngestStep ==
  \/ PositionHSet
  \/ PositionExpire
  \/ PositionGeoAdd
  \/ HistoryZAdd
  \/ HistoryTrim
  \/ InfoHSet
  \/ ImoIndexSet
  \/ BaseHSet
  \/ BaseExpire

OpsNext ==
  \/ \E msg \in OpsMessages : Receive(msg)
  \/ PositionHSet
  \/ PositionExpire
  \/ PositionGeoAdd
  \/ HistoryZAdd
  \/ HistoryTrim
  \/ InfoHSet
  \/ ImoIndexSet
  \/ BaseHSet
  \/ BaseExpire
  \/ \E d \in TickSteps : Tick(d)
  \/ StoreGoesDown
  \/ StoreComesBack
  \/ CommandFails
  \/ DecodeFails
  \/ Shutdown

EnrichNext ==
  \/ \E msg \in OpsMessages : Receive(msg)
  \/ PositionHSet
  \/ PositionExpire
  \/ PositionGeoAdd
  \/ HistoryZAdd
  \/ HistoryTrim
  \/ InfoHSet
  \/ ImoIndexSet
  \/ BaseHSet
  \/ BaseExpire
  \/ \E m \in MMSIs : EnrichmentRequest(m)
  \/ EnrichmentReturns
  \/ EnrichmentFails

(***************************************************************************)
(* Part 3.  server.py: the counters of AISUDPServer                        *)
(*                                                                         *)
(* A datagram is a sequence of bytes; a byte is written as the character   *)
(* it encodes, BadByte is a byte that is no UTF-8.                         *)
(***************************************************************************)
\* Datagrams handled before the model stops.
MaxDatagrams == 8

BadByte == "0xFF"

\* data.decode('utf-8', errors='ignore'): bytes that do not decode are left out.
DecodeIgnoring(bytes) == SelectSeq(bytes, LAMBDA b : b # BadByte)

\* AISUDPServer.parse_nmea_message: the tests of AISDecoder.parse_nmea_message
\* (prefix, field count, int(), one checksum marker); message_id is kept as
\* given and nothing is buffered.  None when a test fails.
server_parse_nmea_message(message) ==
  LET f == nmea_fields(message)
  IN IF f = Malformed THEN None
     ELSE [f EXCEPT !.message_id = IF @ = NoneStr THEN <<>> ELSE @]

\* The datagrams sent to the server: sentences, texts that are no sentence,
\* each also with a blank after it or an undecodable byte before it, the empty
\* datagram, a blank, an undecodable byte.
ServerTexts == CheckedTexts \cup MalformedTexts

Datagrams ==
  ServerTexts
    \cup {t \o <<" ">> : t \in ServerTexts}
    \cup {<<BadByte>> \o t : t \in ServerTexts}
    \cup {<<>>, <<" ">>, <<BadByte>>, <<BadByte, " ">>}

\* AISUDPServer.handle_message on the two counters.  The prints are taken to
\* succeed, so the except of line 133 is not reached.
handle_message(counts, bytes) ==
  LET message == Strip(DecodeIgnoring(bytes))
  IN IF message = <<>> THEN counts
     ELSE LET parsed == server_parse_nmea_message(message)
          IN IF parsed # None
             THEN [counts EXCEPT !.message_count = @ + 1]
             ELSE [message_count |-> counts.message_count + 1,
                   error_count |-> counts.error_count + 1]

ZeroCounts == [message_count |-> 0, error_count |-> 0]

\* What handle_message makes of each datagram: the text it works on, whether
\* that parses, and what the call adds to the two counters.
Handlings ==
  {[bytes |-> b,
    message |-> Strip(DecodeIgnoring(b)),
    parsed |-> server_parse_nmea_message(Strip(DecodeIgnoring(b))) # None,
    adds |-> handle_message(ZeroCounts, b)]
     : b \in Datagrams}

\* The loop of AISUDPServer.start (lines 150-155): recvfrom, handle_message.
HandleDatagram(h) ==
  /\ message_count < MaxDatagrams
  /\ message_count' = message_count + h.adds.message_count
  /\ error_count' = error_count + h.adds.error_count
  /\ handled' = [bytes |-> h.bytes, message |-> h.message, parsed |-> h.parsed,
                 message_count |-> message_count, error_count |-> error_count]
  /\ UNCHANGED <<now, utcoffset, position, position_ttl, locations, history,
                 info, imo_index, pc, data, reports, ticks, latest, completed,
                 refreshed, had_static, appended, fresh>>
  /\ UNCHANGED <<decoderVars, opsVars>>

ServerNext == \E h \in Handlings : HandleDatagram(h)

vars == <<decoderVars, storeVars>>

\* The store and the ingestion thread with failures: the store out of reach,
\* messages that do not decode, shutdown.
OpsInit == StoreInit /\ utcoffset = 0
SpecOps == OpsInit /\ [][OpsNext]_vars

\* Ingestion next to the enrichment call.  The receiver is a thread of its
\* own (line 391), so the operating system lets it run: a store command it has
\* reached is executed.  Nothing is assumed about the scraper.
EnrichInit == StoreInit /\ utcoffset = 0
SpecEnrich == EnrichInit /\ [][EnrichNext]_vars /\ WF_vars(IngestStep)

\* The store, with the decoder at rest.
Spec == StoreInit /\ [][StoreNext]_vars

\* The decoder, with the store at rest.
DecoderSpecInit == StoreInit /\ utcoffset = 0
SpecDecoder == DecoderSpecInit /\ [][DecoderNext]_vars

\* The UDP server of server.py, with the rest at rest.
ServerInit == StoreInit /\ utcoffset = 0
SpecServer == ServerInit /\ [][ServerNext]_vars

\* The checksum validator, with the rest at rest.
ChecksumSpecInit == StoreInit /\ utcoffset = 0
SpecChecksum == ChecksumSpecInit /\ [][ChecksumNext]_vars

(***************************************************************************)
(* Properties of the store (checked under Spec).                           *)
(***************************************************************************)
\* The MMSIs a shipsInRadius answer lists.
ShipsIn(center_lat, center_lon, radius) ==
  {s.mmsi : s \in get_ships_in_area(center_lat, center_lon, radius)}

\* The places and radii (> 0) asked about.
QueryCentres == {p \in Points : GeoValid(p.lon, p.lat) /\ p.lat # 0}
QueryRadii == {5, 10}

\* update_ship_position is between two of its store commands for mmsi m.
Upserting(m) == pc \in {"expire", "geoadd", "zadd", "zrem"} /\ data.mmsi = m

\* C1: no reader finds an MMSI's position state holding coordinates that its
\* spatial-index entry does not hold: whenever shipByMmsi shows a position,
\* shipsInRadius around that position lists the MMSI.
C1_PositionAndIndexTogether ==
  \A m \in MMSIs :
    LET d == get_ship_details(m)
    IN (d.position # Empty /\ GeoValid(d.position["lon"], d.position["lat"])) =>
         \A r \in QueryRadii : m \in ShipsIn(d.position["lat"], d.position["lon"], r)

C9_HistoryIsTheWindow ==
  \A m \in MMSIs :
    fresh = m =>
      /\ \A e \in history[m] : now - e.score <= HistoryRetention
      /\ \A e \in appended[m] : now - e.score < HistoryRetention => e \in history[m]

\* C10: an MMSI whose position has not been refreshed for the time-to-live has
\* no position in shipByMmsi; it is found exactly if static state was written
\* for it, and that static state is still returned.
C10_PositionExpiresStaticStays ==
  \A m \in MMSIs :
    ( /\ refreshed[m] = Never \/ now - refreshed[m] >= PositionTTL
      /\ ~Upserting(m) ) =>
      LET d == get_ship_details(m)
      IN /\ d.position = Empty
         /\ d.found <=> had_static[m]
         /\ had_static[m] => (d.info # Empty /\ d.info["mmsi"] = m)

C10_Witness ==
  \E m \in MMSIs :
    /\ latest[m] # NoPoint /\ completed[m]
    /\ now >= PositionTTL
    /\ had_static[m]
    /\ get_ship_details(m).position = Empty
    /\ get_ship_details(m).found

\* The MMSI shipByRegistryNumber resolves a registry number to (NoMmsi when it
\* reports the number as unknown).
Resolved(i) ==
  LET r == get_ship_by_imo(i) IN IF r.found THEN r.ship.mmsi ELSE NoMmsi

\* C11: when update_ship_info returns for MMSI m with a non-zero registry number
\* i, shipByRegistryNumber(i) resolves to m, whatever it resolved to before; no
\* other step changes what i resolves to.
C11_RegistryLastWriterWins ==
  [][\A i \in Imos \ {0} :
       IF pc = "imo_set" /\ pc' = "idle" /\ data.imo = i
       THEN Resolved(i)' = data.mmsi
       ELSE Resolved(i)' = Resolved(i)]_vars

C11_Witness ==
  /\ pc = "idle"
  /\ \E m \in MMSIs, m2 \in MMSIs, i \in Imos \ {0} :
       /\ m # m2
       /\ info[m] # Empty /\ info[m]["imo"] = i
       /\ info[m2] # Empty /\ info[m2]["imo"] = i
       /\ Resolved(i) = m2

\* The position key of m exists: its expiry is pending, or update_ship_position
\* has written it and is about to set the expiry.
LivePosition(m) == refreshed[m] # Never \/ (pc = "expire" /\ data.mmsi = m)

\* C12: shipByMmsi(m) reports found = false exactly when m has neither a live
\* position entry nor a static entry.
C12_FoundIffEitherExists ==
  \A m \in MMSIs :
    (get_ship_details(m).found = FALSE) <=> (~LivePosition(m) /\ ~had_static[m])

C12_Witness ==
  \E m \in MMSIs, m2 \in MMSIs :
    /\ latest[m] # NoPoint /\ completed[m] /\ ~had_static[m]
    /\ ~get_ship_details(m).found
    /\ had_static[m2] /\ ~LivePosition(m2) /\ get_ship_details(m2).found

\* C13: for a registry number in the index, shipByRegistryNumber returns the
\* position state, static state and found flag shipByMmsi returns for the MMSI
\* it resolves to; for a number not in the index it returns found = false and a
\* message saying so.
C13_ByRegistryAsByMmsi ==
  \A i \in Imos \ {0} :
    LET r == get_ship_by_imo(i)
    IN IF imo_index[i] # NoMmsi
       THEN LET d == get_ship_details(imo_index[i])
            IN /\ r.found = d.found
               /\ r.ship.mmsi = d.mmsi
               /\ r.ship.position = d.position
               /\ r.ship.vessel_info = d.info
       ELSE /\ r.found = FALSE
            /\ "message" \in DOMAIN r /\ r.message # ""

C13_Witness ==
  \E i \in Imos \ {0} :
    /\ get_ship_by_imo(i).found
    /\ get_ship_by_imo(i).ship.position # Empty
    /\ get_ship_by_imo(i).ship.vessel_info # Empty

\* C14: the position state of an MMSI whose latest stored report is a class-B
\* report (type 18) has no rate-of-turn and no navigation-status field.
C14_ClassBHasNoTurnNoStatus ==
  \A m \in MMSIs :
    (position[m] # Empty /\ position[m]["message_type"] = 18) =>
      /\ "rot" \notin DOMAIN position[m]
      /\ "nav_status" \notin DOMAIN position[m]

\* The not-available values of latitude and longitude.
NotAvailable == [lat |-> 91, lon |-> 181]

\* A position report with an MMSI and with coordinates that are available.
Usable(msg) ==
  msg.mmsi # NoMmsi /\ msg.point.lat # NotAvailable.lat /\ msg.point.lon # NotAvailable.lon

\* C15: no position report without an MMSI or with a not-available latitude or
\* longitude reaches the store: handling it starts no store command and leaves
\* position state, spatial index and history as they were.
C15_UnusableReportDiscarded ==
  [][\A msg \in PositionMessages :
       ~Usable(msg) =>
         /\ ~Receive(msg)
         /\ Discard(msg) =>
              (position' = position /\ locations' = locations /\ history' = history)]_vars

\* C16: every position report with an MMSI and available coordinates is passed
\* to update_ship_position, latitude or longitude 0 included: no such report is
\* discarded.
C16_UsableReportStored ==
  [][\A msg \in PositionMessages : Usable(msg) => ~Discard(msg)]_vars

\* The vessel name has a character that is not a blank.
HasName(msg) == \E k \in 1..Len(msg.shipname) : msg.shipname[k] # " "

\* C17: a type-5 record is handed to update_ship_info exactly when it has an
\* MMSI and a name that is not blank; update_ship_info then writes the trimmed
\* name; a record without one of them is discarded, and static state and the
\* IMO index stay as they were.
C17_StaticWrittenIffNamed ==
  [][/\ \A msg \in StaticMessages :
          LET ok == msg.mmsi # NoMmsi /\ HasName(msg)
          IN /\ Receive(msg) => (ok /\ pc' = "info_hset")
             /\ Discard(msg) => (~ok /\ info' = info /\ imo_index' = imo_index)
     /\ (pc = "info_hset" /\ pc' = "imo_set") =>
          /\ info'[data.mmsi]["mmsi"] = data.mmsi
          /\ info'[data.mmsi]["vessel_name"] # <<>>
          /\ Head(info'[data.mmsi]["vessel_name"]) # " "
          /\ info'[data.mmsi]["vessel_name"][Len(info'[data.mmsi]["vessel_name"])] # " "]_vars

C17_Witness ==
  \E m \in MMSIs :
    /\ pc = "idle" /\ fresh # NoMmsi
    /\ info[m] # Empty /\ info[m]["vessel_name"] = <<"E">>

(***************************************************************************)
(* Properties of the reassembler (checked under SpecDecoder).              *)
(***************************************************************************)
\* The indices recorded for the group of the last sentence, this one included.
SeenAfter == Seen(fragments_before, result.message_id) \cup {result.fragment_number}

\* C3: a multi-fragment sentence with a group identifier is reported complete
\* exactly when the indices seen for its group, this fragment included, are
\* {1..count}; a group reported complete is removed from the fragment map, and
\* a group not reported complete stays in it with this index recorded.
C3_CompleteIffAllSeen ==
  Grouped(result) =>
    /\ result.is_complete <=> (SeenAfter = 1..result.fragment_count)
    /\ result.is_complete => result.message_id \notin DOMAIN message_fragments
    /\ ~result.is_complete =>
         /\ result.message_id \in DOMAIN message_fragments
         /\ message_fragments[result.message_id] = SeenAfter

C3_Witness ==
  /\ Grouped(result) /\ result.is_complete
  /\ result.fragment_count = MaxCount
  /\ Cardinality(Seen(fragments_before, result.message_id)) = MaxCount - 1

\* C4: when the last fragment of a group arrives, the sentence emitted carries
\* the concatenation of all the group's payload slices in index order.
C4_EmitsConcatenation ==
  (Grouped(result) /\ result.is_complete) =>
    result.data = ConcatSlices(result.fragment_count)

\* C5: once the eviction window has elapsed since a group arrived, the group is
\* no longer in the fragment map.
C5_StaleGroupEvicted ==
  \A id \in DOMAIN message_fragments : id \notin stale

\* C6: a single-fragment sentence is reported complete at once, with the payload
\* it was sent with, and leaves the fragment map as it was, whatever its group
\* identifier and channel and whatever is buffered.
C6_SingleFragmentImmediate ==
  (result # None /\ result.fragment_count = 1) =>
    /\ result.is_complete
    /\ result.data = SliceOf(result.fragment_number)
    /\ message_fragments = fragments_before

C6_Witness ==
  /\ result # None /\ result.fragment_count = 1
  /\ result.message_id \in DOMAIN message_fragments
  /\ result.channel = <<"B">>
  /\ result.data = SliceOf(2)

\* C7: groups are keyed by (message-group identifier, channel): every index that
\* completes a group arrived on the channel of that group.
C7_KeyedByIdAndChannel ==
  (Grouped(result) /\ result.is_complete) => last_channels = {result.channel}

C19_MismatchNotDropped ==
  received = "wrong" =>
    /\ result # None
    /\ result.checksum_valid = FALSE
    /\ \E d \in Deliverable :
         /\ d.kind = "right"
         /\ d.fields.fragment_count = result.fragment_count
         /\ d.fields.fragment_number = result.fragment_number
         /\ d.fields.message_id = result.message_id
         /\ d.fields.channel = result.channel
         /\ d.fields.data = result.data
         /\ LET twin == parse(fragments_before, d)
            IN /\ twin.ret.checksum_valid
               /\ twin.ret.is_complete = result.is_complete
               /\ twin.frags = message_fragments

C19_Witness ==
  /\ received = "wrong"
  /\ Grouped(result) /\ result.is_complete /\ ~result.checksum_valid
  /\ result.fragment_count = MaxCount

\* C20: a malformed sentence (no start marker, fewer than six fields, or a
\* fragment count or index that is not a number) gives no record and leaves the
\* fragment map, the only state later sentences depend on, exactly as it was.
C20_MalformedYieldsNothing ==
  received = "malformed" =>
    /\ result = None
    /\ message_fragments = fragments_before

C20_Witness ==
  /\ received = "malformed"
  /\ result = None
  /\ Seen(message_fragments, <<"1">>) # {}

(***************************************************************************)
(* Properties of the checksum validator (checked under SpecChecksum).      *)
(***************************************************************************)
\* The text has a start marker and behind it a checksum marker, and the
\* exclusive-or of the characters between the two is the hexadecimal number
\* behind the checksum marker.
ChecksumHolds(t) ==
  /\ Contains(t, "!") /\ Contains(t, "*")
  /\ LET a == FirstIndex(t, "!")
         b == FirstIndex(t, "*")
         suffix == SubSeq(t, b + 1, Len(t))
     IN /\ a < b
        /\ IsHex(suffix)
        /\ XorAll(SubSeq(t, a + 1, b - 1)) = HexToInt(suffix)

\* C18: validate_checksum answers with a boolean for every text; it answers
\* true exactly when the text has a checksum marker and the exclusive-or of the
\* characters between the start marker and the checksum marker is the
\* hexadecimal number behind the marker; a text without the marker is invalid;
\* a valid sentence with one payload character changed is invalid.
C18_ChecksumExact ==
  validated # None =>
    /\ validated.valid \in BOOLEAN
    /\ validated.valid <=> ChecksumHolds(validated.message)
    /\ ~Contains(validated.message, "*") => ~validated.valid
    /\ validated.message \in FlippedTexts => ~validated.valid

(***************************************************************************)
(* Properties of ingestion and of the reads under failures (SpecOps).      *)
(***************************************************************************)
\* C21: a store command that raises while a message is being written does not
\* halt ingestion: the message is given up, the receiver thread is still
\* running and is at rest, which is all handle_message needs to classify the
\* next message and attempt its write.
C21_WriteFailureDoesNotHalt ==
  [][(pc # "idle" /\ ~available /\ pc' = "idle")
       => (receiver' = "running" /\ data' = Idle /\ reports' = reports)]_vars

\* A position report received after a store command had raised has been
\* written to the end.
C21_Witness ==
  /\ failed_at # Never
  /\ failed_at < reports
  /\ fresh # NoMmsi

\* An answer that tells its caller the read failed.
Surfaced(answer) == "raised" \in DOMAIN answer \/ "error" \in DOMAIN answer

\* C22: with the store out of reach, each of the three reads gives its caller
\* an error, never an ordinary empty or not-found answer.
C22_ReadFailureSurfaced ==
  ~available =>
    /\ \A c \in QueryCentres : \A r \in QueryRadii :
         Surfaced(ships_in_area_answer(c.lat, c.lon, r))
    /\ \A m \in MMSIs : Surfaced(ship_details_answer(m))
    /\ \A i \in Imos \ {0} : Surfaced(ship_by_imo_answer(i))


\* C23: a message whose decoding raises is skipped and is not fatal: the
\* receiver loop has not ended, so later messages are still received.
C23_DecodeFailureNotFatal == receiver # "ended"

\* C25: once shutdown has begun no update is left between two of its store
\* commands: the record in flight was written to the end before the ingestion
\* thread went away.
C25_ShutdownCompletesInFlight == receiver = "killed" => pc = "idle"

\* C26: static state is durable.  A static hash that exists is not removed by
\* any step, and the only step that changes the static hash of an MMSI is the
\* hset of update_ship_info for that MMSI: not update_ship_position, not
\* update_base_station, not the expiry of keys, not a failing command.
C26_StaticDurable ==
  [][\A m \in MMSIs :
       /\ info[m] # Empty => info'[m] # Empty
       /\ info'[m] # info[m] => (pc = "info_hset" /\ data.mmsi = m)]_vars

\* A base station report of a vessel number is being written after time has
\* passed, and the static hash of that number is there.
C26_Witness ==
  /\ pc = "base_expire"
  /\ ticks > 0
  /\ info[data.mmsi] # Empty
  /\ station[data.mmsi] # Empty

\* C27: in every state of the store, the states between two commands of one
\* update_ship_position and after a failed command included, a position key
\* that exists has an expiry, which is in the future and not further away than
\* the position TTL.
C27_PositionAlwaysExpiring ==
  \A m \in MMSIs :
    position[m] # Empty =>
      /\ position_ttl[m] # NoTTL
      /\ position_ttl[m] > now
      /\ position_ttl[m] - now <= PositionTTL

(***************************************************************************)
(* Ingestion next to the enrichment call (SpecEnrich).                     *)
(***************************************************************************)
\* C24: ingestion never waits on the enrichment collaborator: whatever the
\* scraper call does (return, fail, stay pending for ever), an update the
\* ingestion thread has begun runs to its last store command.
C24_IngestionNeverWaitsForEnrichment == (pc # "idle") ~> (pc = "idle")

\* A position report received after the scraper was called has been written
\* to the end, the call still pending.
C24_Witness ==
  /\ enrichment.state = "pending"
  /\ enrichment.since < reports
  /\ fresh # NoMmsi

(***************************************************************************)
(* Readers next to one writer (Spec): every state is one a reader can find. *)
(***************************************************************************)
\* C29: whenever shipByRegistryNumber resolves a registry number to an MMSI,
\* between the commands of an update_ship_info included, the static hash of
\* that MMSI exists.
C29_IndexNeverBeforeStatic ==
  \A i \in Imos \ {0} : Resolved(i) # NoMmsi => info[Resolved(i)] # Empty

\* update_ship_info is between its two commands for a registry number that
\* still resolves to another MMSI.
C29_Witness ==
  /\ pc = "imo_set"
  /\ data.imo # 0
  /\ Resolved(data.imo) # NoMmsi
  /\ Resolved(data.imo) # data.mmsi

\* C30: shipsInRadius returns no MMSI whose position key does not exist, and
\* every ship it returns carries a position that is not empty.
C30_ReturnedShipsHavePosition ==
  \A c \in QueryCentres : \A r \in QueryRadii :
    \A ship \in get_ships_in_area(c.lat, c.lon, r) :
      /\ position[ship.mmsi] # Empty
      /\ ship.position # Empty

\* A position key has expired, its geo entry is still there, and a query
\* around that place does not list the MMSI.
C30_Witness ==
  \E g \in locations :
    /\ position[g.member] = Empty
    /\ [lat |-> g.lat, lon |-> g.lon] \in QueryCentres
    /\ \A r \in QueryRadii : g.member \notin ShipsIn(g.lat, g.lon, r)

\* C31: every entry of the registry index agrees with static state: when
\* shipByRegistryNumber resolves number i to MMSI m, the static hash of m
\* exists and the registry number in it is i.  So once a later static report of
\* m carries another number, or zero, i resolves to m no longer.
C31_IndexAgreesWithStatic ==
  \A i \in Imos \ {0} :
    Resolved(i) # NoMmsi =>
      /\ info[Resolved(i)] # Empty
      /\ info[Resolved(i)]["imo"] = i

(***************************************************************************)
(* Properties of the UDP server's counters (SpecServer).                   *)
(***************************************************************************)
\* C28: error_count never exceeds message_count; a datagram that is not empty
\* adds exactly one to message_count; it adds exactly one to error_count when
\* it does not parse and nothing when it parses.
C28_CountersFollowDatagrams ==
  /\ error_count <= message_count
  /\ (handled # None /\ handled.bytes # <<>>) =>
       /\ message_count = handled.message_count + 1
       /\ error_count = handled.error_count + (IF handled.parsed THEN 0 ELSE 1)

====
